---- MODULE Spec2Model ----
(***************************************************************************)
(* A model of the randd-tasks daily task picker: the task catalog (config  *)
(* and state entries joined by slug), the eligibility predicates           *)
(* Task::disabled and Task::choosable, pick_todays_tasks, TaskConfig::merge *)
(* and the catalog operations of State with the two persisted documents.   *)
(*                                                                         *)
(* Dates are calendar day numbers.  A date-time (OffsetDateTime) is a      *)
(* record [day, before]: its calendar day and whether its time of day is   *)
(* before the configured cut-off.  Option<T> is a set with at most one     *)
(* element: {} is None and {v} is Some(v).                                 *)
(***************************************************************************)
EXTENDS Integers, FiniteSets, Sequences, TLC

(* ------------------------------ bounds -------------------------------- *)
MaxTasks == 2
MergeMaxTags == 2
MaxCalls == 2
CatMaxBatch == 2
CatMaxConfigBatch == 2
CatMaxCompleted == 2
MaxDay == 1
MaxCompleted == 1
MaxDailyTasks == 2
EligMaxDay == 4
EligMaxFor == 3
EligMaxCount == 2

(* -------------------------- program constants ------------------------- *)
DEFAULT_WEIGHT == 1
DEFAULT_SPOONS == 3

VARIABLES
    config_tasks,    \* Config.tasks_map: slug -> TaskConfig
    state_tasks,     \* StateModel.tasks: slug -> TaskState
    tasks,           \* State.tasks: the slugs of the live Task views
    todays_tasks,    \* StateModel.todays_tasks: a set of slugs
    last_generated,  \* StateModel.last_generated: a date-time
    limit_by,        \* Config.limit_by: [kind, n]
    clock,           \* the wall clock: a date-time
    effective_date,  \* Config.effective_date: OnceCell<Date>
    documents,       \* the config and state documents as last written
    calls,           \* the number of catalog calls made so far
    ret              \* the last operation, its result and what it saw

vars == <<config_tasks, state_tasks, tasks, todays_tasks, last_generated,
          limit_by, clock, effective_date, documents, calls, ret>>

(* ------------------------------- values ------------------------------- *)
None == {}
Some(v) == {v}
Unwrap(opt) == CHOOSE v \in opt : TRUE
Min(a, b) == IF a <= b THEN a ELSE b

SlugNames == <<"a", "b", "c", "d">>
Slugs == {SlugNames[i] : i \in 1..MaxTasks}

Enabled == [kind |-> "Enabled", arg |-> 0]
Disabled == [kind |-> "Disabled", arg |-> 0]
Until(date) == [kind |-> "Until", arg |-> date]
For(days) == [kind |-> "For", arg |-> days]

\* TaskState::default()
DefaultTaskState ==
    [completed |-> FALSE, times_completed |-> 0,
     last_chosen |-> None, disabled_on |-> None]

(* -------------------------------- time -------------------------------- *)
now == clock
today == clock.day

dt_with_cutoff(dt) == IF dt.before THEN dt.day - 1 ELSE dt.day

now_with_cutoff == dt_with_cutoff(now)

Config_today_recomputed == now_with_cutoff

\* Config::today: the OnceCell is filled by the first call and kept.
Config_today ==
    IF effective_date = None THEN now_with_cutoff ELSE Unwrap(effective_date)

todays_date == Config_today

days_since_today(date) == todays_date - date

last_generated_date == dt_with_cutoff(last_generated)

(* ------------------------------ documents ----------------------------- *)
\* What State::save writes: StateModel (last_generated, tasks,
\* todays_tasks) to the state document and Config.tasks to the config
\* document.  Both hold every entry of the in-memory maps, live or not,
\* and both files exist afterwards.
Document(the_config, the_state, the_todays, the_generated) ==
    [config_tasks |-> the_config, state_tasks |-> the_state,
     todays_tasks |-> the_todays, last_generated |-> the_generated,
     config_exists |-> TRUE, state_exists |-> TRUE]

\* Config::default(): daily_tasks is 1.
DefaultLimitBy == [kind |-> "Tasks", n |-> 1]

\* StateModel::default(): no tasks, and last_generated = now() - 1 day.
StateModel_default ==
    [last_generated |-> [day |-> clock.day - 1, before |-> clock.before],
     tasks |-> [s \in {} |-> DefaultTaskState], todays_tasks |-> {}]

\* What State::load finds and leaves.  Config::load reads the config file,
\* or without one takes Config::default(), which fills the OnceCell, and
\* writes it; the state file is read, or without one StateModel::default()
\* is taken and nothing is written.
State_load(files) ==
    LET model == IF files.state_exists
                 THEN [last_generated |-> files.last_generated,
                       tasks |-> files.state_tasks,
                       todays_tasks |-> files.todays_tasks]
                 ELSE StateModel_default
        the_config == IF files.config_exists THEN files.config_tasks
                      ELSE [s \in {} |-> DefaultTaskState]
    IN  [config_tasks |-> the_config,
         state_tasks |-> model.tasks,
         tasks |-> {slug \in DOMAIN model.tasks :
                      slug \in DOMAIN the_config},
         todays_tasks |-> model.todays_tasks,
         last_generated |-> model.last_generated,
         effective_date |-> IF files.config_exists THEN None
                            ELSE Some(now_with_cutoff),
         limit_by |-> IF files.config_exists THEN limit_by
                      ELSE DefaultLimitBy,
         documents |-> IF files.config_exists THEN files
                       ELSE [files EXCEPT !.config_exists = TRUE,
                                          !.config_tasks = the_config]]

\* State::load: the live map holds the state entries whose slug has a
\* config entry; the others are orphans.
loaded_tasks(doc) ==
    {slug \in DOMAIN doc.state_tasks : slug \in DOMAIN doc.config_tasks}

(* -------------------------- TaskConfig / TaskState --------------------- *)
\* TaskConfig::enable and TaskConfig::disable
TaskConfig_enable(cfg) == [cfg EXCEPT !.disabled = Enabled]
TaskConfig_disable(cfg) == [cfg EXCEPT !.disabled = Disabled]

\* TaskState::reset, complete, enable, disable, choose
TaskState_reset(st) == [st EXCEPT !.completed = FALSE]

TaskState_complete_flag_only(st) == [st EXCEPT !.completed = TRUE]

TaskState_complete(st) ==
    [st EXCEPT !.completed = TRUE, !.times_completed = @ + 1]

TaskState_enable(st) == [st EXCEPT !.disabled_on = None]

TaskState_disable(st) == [st EXCEPT !.disabled_on = Some(today)]

TaskState_choose_stamp_only(st) ==
    [st EXCEPT !.last_chosen = Some(todays_date)]

TaskState_choose(st) ==
    [TaskState_reset(st) EXCEPT !.last_chosen = Some(todays_date)]

(* ----------------------------- eligibility ---------------------------- *)
\* Task::disabled unwraps disabled_on for the For variant: None aborts.
disabled_aborts(s) ==
    /\ config_tasks[s].disabled.kind = "For"
    /\ state_tasks[s].disabled_on = None

disabled_until_exclusive(s) ==
    LET task_config == config_tasks[s]
        task_state == state_tasks[s]
    IN  CASE task_config.disabled.kind = "Enabled" -> FALSE
          [] task_config.disabled.kind = "Disabled" -> TRUE
          [] task_config.disabled.kind = "Until" ->
                task_config.disabled.arg > todays_date
          [] task_config.disabled.kind = "For" ->
                days_since_today(Unwrap(task_state.disabled_on))
                    >= task_config.disabled.arg

\* Task::disabled
disabled(s) ==
    LET task_config == config_tasks[s]
        task_state == state_tasks[s]
    IN  CASE task_config.disabled.kind = "Enabled" -> FALSE
          [] task_config.disabled.kind = "Disabled" -> TRUE
          [] task_config.disabled.kind = "Until" ->
                task_config.disabled.arg >= todays_date
          [] task_config.disabled.kind = "For" ->
                days_since_today(Unwrap(task_state.disabled_on))
                    >= task_config.disabled.arg

choosable_max_exclusive(s, the_todays_tasks) ==
    LET config == config_tasks[s]
        state == state_tasks[s]
    IN  IF ~(disabled(s) \/ s \in the_todays_tasks) THEN FALSE
        ELSE IF /\ config.max_occurrences # None
                /\ state.times_completed > Unwrap(config.max_occurrences)
             THEN FALSE
        ELSE IF config.min_frequency # None
             THEN IF state.last_chosen # None
                  THEN days_since_today(Unwrap(state.last_chosen))
                           >= Unwrap(config.min_frequency)
                  ELSE TRUE
        ELSE TRUE

\* Task::choosable; the_todays_tasks is the_state.todays_tasks() at the call.
choosable(s, the_todays_tasks) ==
    LET config == config_tasks[s]
        state == state_tasks[s]
    IN  IF ~(disabled(s) \/ s \in the_todays_tasks) THEN FALSE
        ELSE IF /\ config.max_occurrences # None
                /\ state.times_completed >= Unwrap(config.max_occurrences)
             THEN FALSE
        ELSE IF config.min_frequency # None
             THEN IF state.last_chosen # None
                  THEN days_since_today(Unwrap(state.last_chosen))
                           >= Unwrap(config.min_frequency)
                  ELSE TRUE
        ELSE TRUE

(* ------------------------------- picker ------------------------------- *)
\* usize::MAX stands in at TLC's integer width; only "> 0" and the minimum
\* with a slice length are ever taken of a wrapped difference.
USIZE_MAX == 2147483647

usize_sub_minuend(a, b) == {[panic |-> FALSE, value |-> a]}

\* a - b on usize: a build with overflow checks aborts on a negative
\* difference, a build without them wraps around.
usize_sub(a, b) ==
    IF a >= b
    THEN {[panic |-> FALSE, value |-> a - b]}
    ELSE {[panic |-> TRUE, value |-> 0],
          [panic |-> FALSE, value |-> USIZE_MAX - (b - a - 1)]}

\* IndexedRandom::choose_multiple_weighted: amount is capped by the slice
\* length, a negative weight is an error, zero-weighted elements are never
\* returned, and any set of min(amount, #positive) positive elements can
\* come out.
choose_multiple_weighted(slice, amount_wanted) ==
    LET amount == Min(amount_wanted, Cardinality(slice))
        positive == {s \in slice : config_tasks[s].weight > 0}
    IN  IF amount = 0 THEN {[result |-> "ok", drawn |-> {}]}
        ELSE IF \E s \in slice : config_tasks[s].weight < 0
        THEN {[result |-> "err", drawn |-> {}]}
        ELSE {[result |-> "ok", drawn |-> D] :
                D \in {D \in SUBSET positive :
                         Cardinality(D) = Min(amount, Cardinality(positive))}}

\* pick_tasks: filters State::tasks() by choosable, then draws; cands is
\* the filtered list.
pick_tasks(num_tasks, the_todays_tasks) ==
    IF \E s \in tasks : disabled_aborts(s)
    THEN {[result |-> "panic", drawn |-> {}, cands |-> {}]}
    ELSE LET cands == {s \in tasks : choosable(s, the_todays_tasks)}
         IN  {[result |-> p.result, drawn |-> p.drawn, cands |-> cands] :
                p \in choose_multiple_weighted(cands, num_tasks)}

todays_tasks_kept_on_rollover(rollover, the_todays_tasks) == the_todays_tasks

\* todays_tasks after the day-rollover test of both picker modes.
todays_tasks_after_rollover(rollover, the_todays_tasks) ==
    IF rollover THEN {} ELSE the_todays_tasks

\* pick_todays_tasks_by_num_tasks: every outcome of one call.
pick_todays_tasks_by_num_tasks(num_tasks, the_todays_tasks) ==
    LET rollover == todays_date > last_generated_date
        at_draw == todays_tasks_after_rollover(rollover, the_todays_tasks)
        subs == IF rollover
                THEN {[panic |-> FALSE, value |-> num_tasks]}
                ELSE usize_sub(num_tasks, Cardinality(at_draw))
        base(sub) == [rollover |-> rollover, at_draw |-> at_draw,
                      needed |-> sub.value, result |-> "false",
                      cands |-> {}, drawn |-> {}, todays |-> at_draw,
                      generated |-> FALSE]
        outcomes(sub) ==
            IF sub.panic THEN {[base(sub) EXCEPT !.result = "panic"]}
            ELSE IF sub.value > 0
            THEN {IF p.result = "ok"
                  THEN [base(sub) EXCEPT !.result = "true",
                                        !.cands = p.cands,
                                        !.drawn = p.drawn,
                                        !.todays = at_draw \cup p.drawn,
                                        !.generated = TRUE]
                  ELSE [base(sub) EXCEPT !.result = p.result,
                                        !.cands = p.cands] :
                  p \in pick_tasks(sub.value, at_draw)}
            ELSE {base(sub)}
    IN  UNION {outcomes(sub) : sub \in subs}

\* State::current_spoons: the spoons of today's tasks, DEFAULT_SPOONS each.
current_spoons(the_todays_tasks) ==
    DEFAULT_SPOONS * Cardinality(the_todays_tasks \cap tasks)

\* pick_todays_tasks_by_max_spoons: the draw itself is todo!().
pick_todays_tasks_by_max_spoons(max_spoons, the_todays_tasks) ==
    LET rollover == todays_date > last_generated_date
        at_draw == todays_tasks_after_rollover(rollover, the_todays_tasks)
        base == [rollover |-> rollover, at_draw |-> at_draw,
                 needed |-> 0, result |-> "false",
                 cands |-> {}, drawn |-> {}, todays |-> at_draw,
                 generated |-> FALSE]
    IN  IF current_spoons(at_draw) >= max_spoons
        THEN {base}
        ELSE {[base EXCEPT !.result = "panic"]}

\* pick_todays_tasks
pick_todays_tasks(the_todays_tasks) ==
    IF limit_by.kind = "Tasks"
    THEN pick_todays_tasks_by_num_tasks(limit_by.n, the_todays_tasks)
    ELSE pick_todays_tasks_by_max_spoons(limit_by.n, the_todays_tasks)

(* ------------------------------ operations ---------------------------- *)
\* A panic ends the process, in the operation or in the listing that
\* follows it: nothing more happens in that run.
Alive == ret.result # "panic" /\ ret.listed # "panic"

NoPreState == [s \in {} |-> DefaultTaskState]

Ret(op, result) ==
    [op |-> op, result |-> result, slug |-> "", value |-> FALSE,
     rollover |-> FALSE, needed |-> 0, at_draw |-> {}, cands |-> {},
     drawn |-> {},
     pre_todays |-> {}, pre_state |-> NoPreState, after_pick |-> FALSE,
     incoming |-> None, pre_config |-> None, items |-> <<>>,
     listed |-> "none", new_tasks |-> {}]

\* TaskSet::resolve: every slug is looked up with State::get_task, and the
\* first one the live map does not hold is a TaskNotFound error.
resolve(the_todays_tasks) ==
    IF the_todays_tasks \subseteq tasks THEN "ok" ELSE "TaskNotFound"

\* get_task_list_items: the slugs are resolved first, then Task::info is
\* taken of every task, and its status calls Task::disabled, which aborts
\* on a For(n) task without a disabled_on.
get_task_list_items(the_tasks) ==
    IF resolve(the_tasks) # "ok" THEN resolve(the_tasks)
    ELSE IF \E s \in the_tasks : disabled_aborts(s) THEN "panic"
    ELSE "ok"

\* GetTodaysTasksCommand: pick_todays_tasks(&mut state), that is the
\* rollover clear, the draw, choose on every drawn task, the extend of
\* todays_tasks and mark_generated; then state.save() when it returned true;
\* then get_task_list_items of todays_tasks (listed).
PickTodaysTasks ==
    /\ Alive
    /\ \E o \in pick_todays_tasks(todays_tasks) :
        /\ todays_tasks' = o.todays
        /\ state_tasks' =
             [s \in DOMAIN state_tasks |->
                IF s \in o.drawn THEN TaskState_choose(state_tasks[s])
                                 ELSE state_tasks[s]]
        /\ last_generated' = IF o.generated THEN now ELSE last_generated
        /\ ret' = [Ret("pick", o.result) EXCEPT
                     !.rollover = o.rollover, !.needed = o.needed,
                     !.at_draw = o.at_draw, !.cands = o.cands,
                     !.drawn = o.drawn,
                     !.pre_todays = todays_tasks, !.pre_state = state_tasks,
                     !.after_pick = /\ ret.op = "pick"
                                    /\ ret.result \in {"true", "false"},
                     !.listed = IF o.result \in {"true", "false"}
                                THEN get_task_list_items(o.todays)
                                ELSE "none"]
    /\ effective_date' = Some(todays_date)
    /\ documents' = IF ret'.result = "true"
                    THEN Document(config_tasks, state_tasks', todays_tasks',
                                  last_generated')
                    ELSE documents
    /\ UNCHANGED <<calls, config_tasks, tasks, limit_by, clock>>

\* CompleteTaskCommand with one live slug: Task::complete, then save.
CompleteTask(s) ==
    /\ Alive
    /\ s \in tasks
    /\ state_tasks[s].times_completed < MaxCompleted
    /\ state_tasks' = [state_tasks EXCEPT ![s] = TaskState_complete(@)]
    /\ ret' = Ret("complete", "ok")
    /\ documents' = Document(config_tasks, state_tasks', todays_tasks,
                             last_generated)
    /\ UNCHANGED <<calls, config_tasks, tasks, todays_tasks, last_generated,
                   limit_by, clock, effective_date>>

\* The wall clock passes the cut-off, or midnight.
Tick ==
    /\ Alive
    /\ IF clock.before
       THEN clock' = [clock EXCEPT !.before = FALSE]
       ELSE /\ clock.day < MaxDay
            /\ clock' = [day |-> clock.day + 1, before |-> TRUE]
    /\ UNCHANGED <<calls, config_tasks, state_tasks, tasks, todays_tasks,
                   last_generated, limit_by, effective_date, documents, ret>>

\* state.save()
Save ==
    /\ Alive
    /\ ret.op # "save"
    /\ documents' = Document(config_tasks, state_tasks, todays_tasks,
                             last_generated)
    /\ ret' = Ret("save", "ok")
    /\ UNCHANGED <<calls, config_tasks, state_tasks, tasks, todays_tasks,
                   last_generated, limit_by, clock, effective_date>>

\* The process ends and the next one calls State::load: the maps come from
\* the documents, the live map from their join, the OnceCell starts empty.
Load ==
    /\ ret.op # "load"
    /\ LET loaded == State_load(documents)
       IN  /\ config_tasks' = loaded.config_tasks
           /\ state_tasks' = loaded.state_tasks
           /\ tasks' = loaded.tasks
           /\ todays_tasks' = loaded.todays_tasks
           /\ last_generated' = loaded.last_generated
           /\ effective_date' = loaded.effective_date
           /\ limit_by' = loaded.limit_by
           /\ documents' = loaded.documents
    /\ ret' = Ret("load", "ok")
    /\ UNCHANGED <<calls, clock>>

\* A process that has just called State::load on the files.
Loaded(files) ==
    LET loaded == State_load(files)
    IN  /\ config_tasks = loaded.config_tasks
        /\ state_tasks = loaded.state_tasks
        /\ tasks = loaded.tasks
        /\ todays_tasks = loaded.todays_tasks
        /\ last_generated = loaded.last_generated
        /\ effective_date = loaded.effective_date
        /\ limit_by = loaded.limit_by
        /\ documents = loaded.documents
        /\ calls = 0
        /\ ret = Ret("load", "ok")

\* The files of the documents: a config document without tasks may be a
\* config file that was never written, and a state document without
\* entries one that was never saved.
FilesOf(docs) ==
    {files \in
        {[doc EXCEPT !.config_exists = c, !.state_exists = s] :
            doc \in docs, c \in BOOLEAN, s \in BOOLEAN} :
        /\ ~files.config_exists => DOMAIN files.config_tasks = {}
        /\ ~files.state_exists =>
              /\ DOMAIN files.state_tasks = {}
              /\ files.todays_tasks = {}
              /\ files.last_generated = [day |-> -1, before |-> FALSE]}

(* -------------------------------- Init -------------------------------- *)
Weights == {-1, 0, DEFAULT_WEIGHT}
DisabledInputs == {Enabled, Disabled, Until(0), For(1)}

TaskConfigs ==
    [weight : Weights,
     max_occurrences : {None, Some(1)},
     min_frequency : {None, Some(1)},
     disabled : DisabledInputs]

\* A loaded state entry: defaults, and for a For(n) task the day it was
\* disabled on when the document has one.
LoadedTaskStates(cfg) ==
    {DefaultTaskState} \cup
    (IF cfg.disabled.kind = "For"
     THEN {[DefaultTaskState EXCEPT !.disabled_on = Some(0)]}
     ELSE {})

LimitTasksBy ==
    {[kind |-> "Tasks", n |-> n] : n \in 0..MaxDailyTasks} \cup
    {[kind |-> "Spoons", n |-> k * DEFAULT_SPOONS] : k \in 0..1}

Init ==
    /\ config_tasks \in [Slugs -> TaskConfigs]
    /\ state_tasks \in [Slugs -> UNION {LoadedTaskStates(c) : c \in TaskConfigs}]
    /\ \A s \in Slugs : state_tasks[s] \in LoadedTaskStates(config_tasks[s])
    /\ tasks = Slugs
    /\ todays_tasks \in SUBSET Slugs
    /\ clock = [day |-> 0, before |-> FALSE]
    /\ last_generated = [day |-> clock.day - 1, before |-> clock.before]
    /\ limit_by \in LimitTasksBy
    /\ effective_date = None
    /\ documents = Document(config_tasks, state_tasks, todays_tasks,
                            last_generated)
    /\ calls = 0
    /\ ret = Ret("load", "ok")

Next ==
    \/ PickTodaysTasks
    \/ \E s \in Slugs : CompleteTask(s)
    \/ Tick
    \/ Load

Spec == Init /\ [][Next]_vars

(* ------------------ the eligibility predicates, applied ---------------- *)
\* Whether Task::disabled and Task::choosable call State::todays_date,
\* which fills the OnceCell.
disabled_reads_today(s) ==
    /\ ~disabled_aborts(s)
    /\ config_tasks[s].disabled.kind \in {"Until", "For"}

choosable_reads_today(s, the_todays_tasks) ==
    /\ ~disabled_aborts(s)
    /\ \/ disabled_reads_today(s)
       \/ /\ (disabled(s) \/ s \in the_todays_tasks)
          /\ ~(/\ config_tasks[s].max_occurrences # None
               /\ state_tasks[s].times_completed
                      >= Unwrap(config_tasks[s].max_occurrences))
          /\ config_tasks[s].min_frequency # None
          /\ state_tasks[s].last_chosen # None

\* task.disabled(&state) on a live task
EvalDisabled(s) ==
    /\ Alive
    /\ s \in tasks
    /\ ret' = IF disabled_aborts(s)
              THEN [Ret("disabled", "panic") EXCEPT !.slug = s]
              ELSE [Ret("disabled", "ok") EXCEPT !.slug = s,
                                                 !.value = disabled(s)]
    /\ effective_date' = IF disabled_reads_today(s)
                         THEN Some(todays_date) ELSE effective_date
    /\ UNCHANGED <<calls, config_tasks, state_tasks, tasks, todays_tasks,
                   last_generated, limit_by, clock, documents>>

\* task.choosable(&state) on a live task
EvalChoosable(s) ==
    /\ Alive
    /\ s \in tasks
    /\ ret' = IF disabled_aborts(s)
              THEN [Ret("choosable", "panic") EXCEPT !.slug = s]
              ELSE [Ret("choosable", "ok") EXCEPT
                      !.slug = s, !.value = choosable(s, todays_tasks)]
    /\ effective_date' = IF choosable_reads_today(s, todays_tasks)
                         THEN Some(todays_date) ELSE effective_date
    /\ UNCHANGED <<calls, config_tasks, state_tasks, tasks, todays_tasks,
                   last_generated, limit_by, clock, documents>>

EligSlugs == {SlugNames[1]}
EligDays == 0..EligMaxDay

EligTaskConfigs ==
    [weight : {DEFAULT_WEIGHT},
     max_occurrences : {None} \cup {Some(n) : n \in 1..EligMaxCount},
     min_frequency : {None} \cup {Some(n) : n \in 0..EligMaxFor},
     disabled : {Enabled, Disabled}
                \cup {Until(d) : d \in EligDays}
                \cup {For(n) : n \in 0..EligMaxFor}]

EligTaskStates ==
    [completed : {FALSE},
     times_completed : 0..EligMaxCount,
     last_chosen : {None} \cup {Some(d) : d \in EligDays},
     disabled_on : {None} \cup {Some(d) : d \in EligDays}]

\* One task with any configuration and any state, on any day.
InitElig ==
    /\ config_tasks \in [EligSlugs -> EligTaskConfigs]
    /\ state_tasks \in [EligSlugs -> EligTaskStates]
    /\ tasks = EligSlugs
    /\ todays_tasks \in SUBSET EligSlugs
    /\ clock \in [day : EligDays, before : BOOLEAN]
    /\ last_generated = [day |-> clock.day - 1, before |-> clock.before]
    /\ limit_by = [kind |-> "Tasks", n |-> 1]
    /\ effective_date = None
    /\ documents = Document(config_tasks, state_tasks, todays_tasks,
                            last_generated)
    /\ calls = 0
    /\ ret = Ret("load", "ok")

NextElig ==
    \/ \E s \in EligSlugs : EvalDisabled(s)
    \/ \E s \in EligSlugs : EvalChoosable(s)

SpecElig == InitElig /\ [][NextElig]_vars

(* ------------------------- TaskConfig: slug, merge --------------------- *)
\* slug::slugify on the titles used here.
get_default_slug(task) ==
    CASE task = "A" -> "a"
      [] task = "B" -> "b"
      [] task = "C" -> "c"
      [] task = "A B" -> "a-b"
      [] OTHER -> ""

\* TaskConfig::slug: the OnceCell is filled from the title when it is empty.
TaskConfig_slug(cfg) ==
    IF cfg.slug = None THEN get_default_slug(cfg.task) ELSE Unwrap(cfg.slug)

\* The config after a call of slug(): the cell is filled.
slug_materialized(cfg) == [cfg EXCEPT !.slug = Some(TaskConfig_slug(cfg))]

\* Vec::contains
contains(vec, x) == \E i \in 1..Len(vec) : vec[i] = x

\* The tag loop of merge: every incoming tag the list does not hold yet is
\* pushed at its end.
RECURSIVE push_missing_tags(_, _)
push_missing_tags(tags, other_tags) ==
    IF other_tags = <<>> THEN tags
    ELSE push_missing_tags(
             IF contains(tags, Head(other_tags)) THEN tags
             ELSE Append(tags, Head(other_tags)),
             Tail(other_tags))

\* Option::unwrap_or
unwrap_or(opt, default) == IF opt = None THEN default ELSE Unwrap(opt)

\* TaskConfig::merge (and AddAssign for TaskConfig)
merge(self, other) ==
    [self EXCEPT
       !.task = IF other.task # "" THEN other.task ELSE @,
       !.description =
           IF other.description # None /\ Unwrap(other.description) # ""
           THEN other.description ELSE @,
       !.weight = IF other.weight # DEFAULT_WEIGHT THEN other.weight ELSE @,
       !.min_frequency = IF unwrap_or(other.min_frequency, 0) # 0
                         THEN other.min_frequency ELSE @,
       !.max_occurrences = IF unwrap_or(other.max_occurrences, 0) # 0
                           THEN other.max_occurrences ELSE @,
       !.disabled = IF other.disabled # Enabled THEN other.disabled ELSE @,
       !.tags = push_missing_tags(@, other.tags)]

(* --------------------------- the task catalog -------------------------- *)
\* HashMap::insert: the entry of the key is added or replaced.
insert(map, key, value) ==
    [k \in DOMAIN map \cup {key} |-> IF k = key THEN value ELSE map[k]]

\* The maps the catalog operations of State work on: Config.tasks_map,
\* StateModel.tasks and the keys of State.tasks.  A live Task shares its
\* config and state cells with the entries of the two maps.
Catalog(the_config_tasks, the_state_tasks, the_tasks) ==
    [config_tasks |-> the_config_tasks, state_tasks |-> the_state_tasks,
     tasks |-> the_tasks]

\* The result of one call and the maps it leaves.
Outcome(result, slug, catalog) ==
    [result |-> result, slug |-> slug, catalog |-> catalog]

\* Config::contains_task
contains_task(catalog, slug) == slug \in DOMAIN catalog.config_tasks

add_task_unchecked(catalog, task_config) ==
    LET slug == TaskConfig_slug(task_config)
    IN  Outcome("ok", slug,
                Catalog(insert(catalog.config_tasks, slug,
                               slug_materialized(task_config)),
                        insert(catalog.state_tasks, slug, DefaultTaskState),
                        catalog.tasks \cup {slug}))

add_task_not_live(catalog, task_config) ==
    LET slug == TaskConfig_slug(task_config)
    IN  IF contains_task(catalog, slug)
        THEN Outcome("TaskAlreadyExists", slug, catalog)
        ELSE Outcome("ok", slug,
                     Catalog(insert(catalog.config_tasks, slug,
                                    slug_materialized(task_config)),
                             insert(catalog.state_tasks, slug,
                                    DefaultTaskState),
                             catalog.tasks))

\* State::add_task, with Config::add_task
add_task(catalog, task_config) ==
    LET slug == TaskConfig_slug(task_config)
    IN  IF contains_task(catalog, slug)
        THEN Outcome("TaskAlreadyExists", slug, catalog)
        ELSE Outcome("ok", slug,
                     Catalog(insert(catalog.config_tasks, slug,
                                    slug_materialized(task_config)),
                             insert(catalog.state_tasks, slug,
                                    DefaultTaskState),
                             catalog.tasks \cup {slug}))

\* State::get_task: the live task of the slug, named by its slug.
get_task(catalog, slug) ==
    IF slug \in catalog.tasks THEN Some(slug) ELSE None

\* State::task_names: the keys of the live map.
task_names(catalog) == catalog.tasks

remove_task_kept(catalog, slug) ==
    IF slug \in catalog.tasks
    THEN Outcome("ok", slug, catalog)
    ELSE Outcome("TaskNotFound", slug, catalog)

\* State::remove_task
remove_task(catalog, slug) ==
    IF slug \in catalog.tasks
    THEN Outcome("ok", slug, [catalog EXCEPT !.tasks = @ \ {slug}])
    ELSE Outcome("TaskNotFound", slug, catalog)

enable_task_config_only(catalog, slug) ==
    IF slug \in catalog.tasks
    THEN Outcome("ok", slug,
                 [catalog EXCEPT
                    !.config_tasks[slug] = TaskConfig_enable(@)])
    ELSE Outcome("TaskNotFound", slug, catalog)

\* State::enable_task, with Task::enable
enable_task(catalog, slug) ==
    IF slug \in catalog.tasks
    THEN Outcome("ok", slug,
                 [catalog EXCEPT
                    !.state_tasks[slug] = TaskState_enable(@),
                    !.config_tasks[slug] = TaskConfig_enable(@)])
    ELSE Outcome("TaskNotFound", slug, catalog)

\* State::disable_task, with Task::disable
disable_task(catalog, slug) ==
    IF slug \in catalog.tasks
    THEN Outcome("ok", slug,
                 [catalog EXCEPT
                    !.state_tasks[slug] = TaskState_disable(@),
                    !.config_tasks[slug] = TaskConfig_disable(@)])
    ELSE Outcome("TaskNotFound", slug, catalog)

update_task_rekeyed(catalog, task_config) ==
    LET slug == TaskConfig_slug(task_config)
        merged == merge(catalog.config_tasks[slug], task_config)
    IN  IF slug \in catalog.tasks
        THEN Outcome("ok", slug,
                     [catalog EXCEPT
                        !.config_tasks[slug] =
                            [merged EXCEPT
                               !.slug = Some(get_default_slug(merged.task))]])
        ELSE Outcome("TaskNotFound", slug, catalog)

\* State::update_task
update_task(catalog, task_config) ==
    LET slug == TaskConfig_slug(task_config)
    IN  IF slug \in catalog.tasks
        THEN Outcome("ok", slug,
                     [catalog EXCEPT
                        !.config_tasks[slug] = merge(@, task_config)])
        ELSE Outcome("TaskNotFound", slug, catalog)

\* State::upsert_task: both delegated results are unwrapped.
upsert_task(catalog, task_config) ==
    LET slug == TaskConfig_slug(task_config)
        delegated == IF slug \in catalog.tasks
                     THEN update_task(catalog, task_config)
                     ELSE add_task(catalog, task_config)
    IN  IF delegated.result = "ok" THEN delegated
        ELSE Outcome("panic", slug, delegated.catalog)

\* The closure of CompleteTaskCommand: get_task(slug), then Task::complete.
complete_task(catalog, slug) ==
    IF slug \in catalog.tasks
    THEN Outcome("ok", slug,
                 [catalog EXCEPT
                    !.state_tasks[slug] = TaskState_complete(@)])
    ELSE Outcome("TaskNotFound", slug, catalog)

\* One call of the single-item operation named op.
call(op, catalog, item) ==
    CASE op = "enable_task" -> enable_task(catalog, item)
      [] op = "disable_task" -> disable_task(catalog, item)
      [] op = "remove_task" -> remove_task(catalog, item)
      [] op = "add_task" -> add_task(catalog, item)
      [] op = "update_task" -> update_task(catalog, item)
      [] op = "complete_task" -> complete_task(catalog, item)

try_for_each_all(op, catalog, items) ==
    LET RECURSIVE go(_, _)
        go(cat, rest) ==
            IF rest = <<>> THEN Outcome("ok", "", cat)
            ELSE LET o == call(op, cat, Head(rest))
                     r == go(o.catalog, Tail(rest))
                 IN  IF o.result # "ok" THEN [r EXCEPT !.result = o.result,
                                                      !.slug = o.slug]
                     ELSE r
    IN  go(catalog, items)

\* Iterator::try_for_each over the items: stops at the first error.
try_for_each(op, catalog, items) ==
    LET RECURSIVE go(_, _)
        go(cat, rest) ==
            IF rest = <<>> THEN Outcome("ok", "", cat)
            ELSE LET o == call(op, cat, Head(rest))
                 IN  IF o.result # "ok" THEN o
                     ELSE go(o.catalog, Tail(rest))
    IN  go(catalog, items)

\* State::enable_tasks, disable_tasks, remove_tasks, add_tasks, update_tasks
enable_tasks(catalog, slugs) == try_for_each("enable_task", catalog, slugs)
disable_tasks(catalog, slugs) == try_for_each("disable_task", catalog, slugs)
remove_tasks(catalog, slugs) == try_for_each("remove_task", catalog, slugs)
add_tasks(catalog, configs) == try_for_each("add_task", catalog, configs)
update_tasks(catalog, configs) == try_for_each("update_task", catalog, configs)

\* State::upsert_tasks: for_each of upsert_task, which has no error to
\* return; an unwrap that aborts ends the call there.
upsert_tasks(catalog, configs) ==
    LET RECURSIVE go(_, _)
        go(cat, rest) ==
            IF rest = <<>> THEN Outcome("ok", "", cat)
            ELSE LET o == upsert_task(cat, Head(rest))
                 IN  IF o.result # "ok" THEN o
                     ELSE go(o.catalog, Tail(rest))
    IN  go(catalog, configs)

\* The loop of ImportTaskCommand without --update: add_task on every row,
\* a row whose slug already exists is skipped and the loop goes on.
import_rows(catalog, configs) ==
    LET RECURSIVE go(_, _)
        go(cat, rest) ==
            IF rest = <<>> THEN Outcome("ok", "", cat)
            ELSE go(add_task(cat, Head(rest)).catalog, Tail(rest))
    IN  go(catalog, configs)

(* ---------------------- the catalog operations, applied ---------------- *)
TheCatalog == Catalog(config_tasks, state_tasks, tasks)

\* The maps after a call.
Becomes(catalog) ==
    /\ config_tasks' = catalog.config_tasks
    /\ state_tasks' = catalog.state_tasks
    /\ tasks' = catalog.tasks

\* A save step that runs whatever the result of the command was.
SaveRegardless(o) ==
    documents' = Document(o.catalog.config_tasks, o.catalog.state_tasks,
                          todays_tasks, last_generated)

\* state.save() after a call that returned Ok; an error returns before it.
SaveIfOk(o) ==
    documents' = IF o.result = "ok"
                 THEN Document(o.catalog.config_tasks, o.catalog.state_tasks,
                               todays_tasks, last_generated)
                 ELSE documents

CatRet(op, o) == [Ret(op, o.result) EXCEPT !.slug = o.slug]

\* state.add_task(task_config)
AddTask(task_config) ==
    /\ Alive
    /\ calls < MaxCalls
    /\ calls' = calls + 1
    /\ LET o == add_task(TheCatalog, task_config)
       IN  /\ Becomes(o.catalog)
           /\ ret' = [CatRet("add_task", o) EXCEPT
                        !.incoming = Some(task_config)]
    /\ UNCHANGED <<todays_tasks, last_generated, limit_by, clock,
                   effective_date, documents>>

\* state.remove_task(slug)
RemoveTask(slug) ==
    /\ Alive
    /\ calls < MaxCalls
    /\ calls' = calls + 1
    /\ LET o == remove_task(TheCatalog, slug)
       IN  /\ Becomes(o.catalog)
           /\ ret' = CatRet("remove_task", o)
    /\ UNCHANGED <<todays_tasks, last_generated, limit_by, clock,
                   effective_date, documents>>

\* state.update_task(task_config)
UpdateTask(task_config) ==
    /\ Alive
    /\ calls < MaxCalls
    /\ calls' = calls + 1
    /\ LET o == update_task(TheCatalog, task_config)
       IN  /\ Becomes(o.catalog)
           /\ ret' = [CatRet("update_task", o) EXCEPT
                        !.incoming = Some(task_config)]
    /\ UNCHANGED <<todays_tasks, last_generated, limit_by, clock,
                   effective_date, documents>>

\* state.upsert_task(task_config)
UpsertTask(task_config) ==
    /\ Alive
    /\ calls < MaxCalls
    /\ calls' = calls + 1
    /\ LET o == upsert_task(TheCatalog, task_config)
       IN  /\ Becomes(o.catalog)
           /\ ret' = [CatRet("upsert_task", o) EXCEPT
                        !.incoming = Some(task_config)]
    /\ UNCHANGED <<todays_tasks, last_generated, limit_by, clock,
                   effective_date, documents>>

\* state.enable_task(slug)
EnableTask(slug) ==
    /\ Alive
    /\ calls < MaxCalls
    /\ calls' = calls + 1
    /\ LET o == enable_task(TheCatalog, slug)
       IN  /\ Becomes(o.catalog)
           /\ ret' = CatRet("enable_task", o)
    /\ UNCHANGED <<todays_tasks, last_generated, limit_by, clock,
                   effective_date, documents>>

\* state.disable_task(slug)
DisableTask(slug) ==
    /\ Alive
    /\ calls < MaxCalls
    /\ calls' = calls + 1
    /\ LET o == disable_task(TheCatalog, slug)
       IN  /\ Becomes(o.catalog)
           /\ ret' = CatRet("disable_task", o)
    /\ UNCHANGED <<todays_tasks, last_generated, limit_by, clock,
                   effective_date, documents>>

\* state.add_tasks(configs)
AddTasks(configs) ==
    /\ Alive
    /\ calls < MaxCalls
    /\ calls' = calls + 1
    /\ LET o == add_tasks(TheCatalog, configs)
       IN  /\ Becomes(o.catalog)
           /\ ret' = [CatRet("add_tasks", o) EXCEPT !.items = configs]
    /\ UNCHANGED <<todays_tasks, last_generated, limit_by, clock,
                   effective_date, documents>>

\* state.update_tasks(configs)
UpdateTasks(configs) ==
    /\ Alive
    /\ calls < MaxCalls
    /\ calls' = calls + 1
    /\ LET o == update_tasks(TheCatalog, configs)
       IN  /\ Becomes(o.catalog)
           /\ ret' = [CatRet("update_tasks", o) EXCEPT !.items = configs]
    /\ UNCHANGED <<todays_tasks, last_generated, limit_by, clock,
                   effective_date, documents>>

\* state.upsert_tasks(configs)
UpsertTasks(configs) ==
    /\ Alive
    /\ calls < MaxCalls
    /\ calls' = calls + 1
    /\ LET o == upsert_tasks(TheCatalog, configs)
       IN  /\ Becomes(o.catalog)
           /\ ret' = [CatRet("upsert_tasks", o) EXCEPT !.items = configs]
    /\ UNCHANGED <<todays_tasks, last_generated, limit_by, clock,
                   effective_date, documents>>

\* ImportTaskCommand on the rows read from the file: with --update
\* state.upsert_tasks(rows), otherwise add_task row by row; then
\* state.save().
ImportTaskCommand(update, configs) ==
    /\ Alive
    /\ calls < MaxCalls
    /\ calls' = calls + 1
    /\ LET o == IF update THEN upsert_tasks(TheCatalog, configs)
                ELSE import_rows(TheCatalog, configs)
       IN  /\ Becomes(o.catalog)
           /\ SaveIfOk(o)
           /\ ret' = [CatRet("import", o) EXCEPT !.items = configs,
                                                 !.value = update]
    /\ UNCHANGED <<todays_tasks, last_generated, limit_by, clock,
                   effective_date>>

\* EnableTaskCommand: state.enable_tasks(self.tasks)?; state.save()
EnableTaskCommand(slugs) ==
    /\ Alive
    /\ calls < MaxCalls
    /\ calls' = calls + 1
    /\ LET o == enable_tasks(TheCatalog, slugs)
       IN  /\ Becomes(o.catalog)
           /\ SaveIfOk(o)
           /\ ret' = [CatRet("enable_tasks", o) EXCEPT !.items = slugs]
    /\ UNCHANGED <<todays_tasks, last_generated, limit_by, clock,
                   effective_date>>

\* DisableTaskCommand: state.disable_tasks(self.tasks)?; state.save()
DisableTaskCommand(slugs) ==
    /\ Alive
    /\ calls < MaxCalls
    /\ calls' = calls + 1
    /\ LET o == disable_tasks(TheCatalog, slugs)
       IN  /\ Becomes(o.catalog)
           /\ SaveIfOk(o)
           /\ ret' = [CatRet("disable_tasks", o) EXCEPT !.items = slugs]
    /\ UNCHANGED <<todays_tasks, last_generated, limit_by, clock,
                   effective_date>>

\* RemoveTaskCommand: state.remove_tasks(self.tasks)?; state.save()
RemoveTaskCommand(slugs) ==
    /\ Alive
    /\ calls < MaxCalls
    /\ calls' = calls + 1
    /\ LET o == remove_tasks(TheCatalog, slugs)
       IN  /\ Becomes(o.catalog)
           /\ SaveIfOk(o)
           /\ ret' = [CatRet("remove_tasks", o) EXCEPT !.items = slugs]
    /\ UNCHANGED <<todays_tasks, last_generated, limit_by, clock,
                   effective_date>>

\* CompleteTaskCommand with explicit slugs: Task::complete on each, then
\* state.save().
CompleteTaskCommand(slugs) ==
    /\ Alive
    /\ calls < MaxCalls
    /\ calls' = calls + 1
    /\ LET o == try_for_each("complete_task", TheCatalog, slugs)
       IN  /\ \A s \in DOMAIN o.catalog.state_tasks :
                 o.catalog.state_tasks[s].times_completed <= CatMaxCompleted
           /\ Becomes(o.catalog)
           /\ SaveIfOk(o)
           /\ ret' = [CatRet("complete_tasks", o) EXCEPT !.items = slugs]
    /\ UNCHANGED <<todays_tasks, last_generated, limit_by, clock,
                   effective_date>>

\* The place of a slug in the order of a BTreeSet<String>.
slug_order(slug) == CHOOSE i \in DOMAIN SlugNames : SlugNames[i] = slug

\* RefreshTodaysTasksCommand: the named slugs, and with --completed the
\* completed tasks of today, are removed from todays_tasks in the order of
\* the set, the first one that is not there ending the command with
\* TaskNotFound; then pick_todays_tasks, save when it returned true, and
\* the listing of the slugs that were not there before the pick.
RefreshTodaysTasksCommand(slugs, completed) ==
    /\ Alive
    /\ calls < MaxCalls
    /\ calls' = calls + 1
    /\ LET named == {slugs[i] : i \in DOMAIN slugs}
           unresolved == completed /\ resolve(todays_tasks) # "ok"
           refreshed == named \cup
                        (IF completed /\ ~unresolved
                         THEN {s \in todays_tasks : state_tasks[s].completed}
                         ELSE {})
           missing == refreshed \ todays_tasks
           removed == {s \in refreshed \cap todays_tasks :
                         \A x \in missing : slug_order(s) < slug_order(x)}
           old_tasks == todays_tasks \ removed
           failed(todays) ==
               /\ todays_tasks' = todays
               /\ ret' = [Ret("refresh", "TaskNotFound") EXCEPT
                            !.items = slugs, !.value = completed,
                            !.pre_todays = todays_tasks,
                            !.pre_state = state_tasks]
               /\ UNCHANGED <<state_tasks, last_generated, effective_date,
                              documents>>
       IN  IF unresolved THEN failed(todays_tasks)
           ELSE IF missing # {} THEN failed(old_tasks)
           ELSE \E o \in pick_todays_tasks(old_tasks) :
                 /\ todays_tasks' = o.todays
                 /\ state_tasks' =
                      [s \in DOMAIN state_tasks |->
                         IF s \in o.drawn
                         THEN TaskState_choose(state_tasks[s])
                         ELSE state_tasks[s]]
                 /\ last_generated' =
                      IF o.generated THEN now ELSE last_generated
                 /\ ret' = [Ret("refresh", o.result) EXCEPT
                              !.rollover = o.rollover, !.needed = o.needed,
                              !.at_draw = o.at_draw, !.cands = o.cands,
                              !.drawn = o.drawn,
                              !.items = slugs, !.value = completed,
                              !.pre_todays = todays_tasks,
                              !.pre_state = state_tasks,
                              !.new_tasks = o.todays \ old_tasks,
                              !.listed =
                                  IF o.result \in {"true", "false"}
                                  THEN get_task_list_items(
                                           o.todays \ old_tasks)
                                  ELSE "none"]
                 /\ effective_date' = Some(todays_date)
                 /\ documents' =
                      IF o.result = "true"
                      THEN Document(config_tasks, state_tasks', todays_tasks',
                                    last_generated')
                      ELSE documents
    /\ UNCHANGED <<config_tasks, tasks, limit_by, clock>>

\* ResetTodaysTasksCommand: todays_tasks is cleared, then pick_todays_tasks,
\* save when it returned true, and the listing of todays_tasks.
ResetTodaysTasksCommand ==
    /\ Alive
    /\ calls < MaxCalls
    /\ calls' = calls + 1
    /\ \E o \in pick_todays_tasks({}) :
        /\ todays_tasks' = o.todays
        /\ state_tasks' =
             [s \in DOMAIN state_tasks |->
                IF s \in o.drawn THEN TaskState_choose(state_tasks[s])
                                 ELSE state_tasks[s]]
        /\ last_generated' = IF o.generated THEN now ELSE last_generated
        /\ ret' = [Ret("reset", o.result) EXCEPT
                     !.rollover = o.rollover, !.needed = o.needed,
                     !.at_draw = o.at_draw, !.cands = o.cands,
                     !.drawn = o.drawn,
                     !.pre_todays = todays_tasks, !.pre_state = state_tasks,
                     !.new_tasks = o.todays,
                     !.listed = IF o.result \in {"true", "false"}
                                THEN get_task_list_items(o.todays)
                                ELSE "none"]
    /\ effective_date' = Some(todays_date)
    /\ documents' = IF ret'.result = "true"
                    THEN Document(config_tasks, state_tasks', todays_tasks',
                                  last_generated')
                    ELSE documents
    /\ UNCHANGED <<config_tasks, tasks, limit_by, clock>>

\* TaskBuilder::default(): the builder derive_builder generates keeps every
\* field of TaskConfig as an Option, all unset at first.
TaskBuilder_default ==
    [slug |-> None, task |-> None, description |-> None,
     max_occurrences |-> None, min_frequency |-> None, weight |-> None,
     disabled |-> None, tags |-> None]

\* TaskBuilder::slug, the custom setter: an empty value unsets the field,
\* any other value sets it to a filled cell.
TaskBuilder_slug(builder, value) ==
    [builder EXCEPT !.slug = IF value = "" THEN None ELSE Some(Some(value))]

\* From<AddTaskCommand> for TaskBuilder: the required arguments are always
\* set, weight and slug only when the command line gave them.
TaskBuilder_from(cmd) ==
    LET required == [TaskBuilder_default EXCEPT
                        !.task = Some(cmd.task),
                        !.tags = Some(cmd.tags),
                        !.description = Some(cmd.description),
                        !.max_occurrences = Some(cmd.max_occurrences),
                        !.min_frequency = Some(cmd.min_frequency)]
        copied == IF cmd.weight = None THEN required
                  ELSE [required EXCEPT !.weight = cmd.weight]
    IN  IF cmd.slug = None THEN copied
        ELSE TaskBuilder_slug(copied, Unwrap(cmd.slug))

\* TaskBuilder::build: a field without #[builder(default)] that was never
\* set is an UninitializedField error; slug, task and tags are such fields.
TaskBuilder_build(builder) ==
    IF builder.slug = None \/ builder.task = None \/ builder.tags = None
    THEN [result |-> "UninitializedField", config |-> None]
    ELSE [result |-> "ok",
          config |-> Some(
             [slug |-> Unwrap(builder.slug),
              task |-> Unwrap(builder.task),
              description |-> unwrap_or(builder.description, None),
              weight |-> unwrap_or(builder.weight, DEFAULT_WEIGHT),
              max_occurrences |-> unwrap_or(builder.max_occurrences, None),
              min_frequency |-> unwrap_or(builder.min_frequency, None),
              disabled |-> unwrap_or(builder.disabled, Enabled),
              tags |-> Unwrap(builder.tags)])]

\* AddTaskCommand: TaskBuilder::from(self).build()?, state.add_task(task)?,
\* state.save().
AddTaskCommand(cmd) ==
    /\ Alive
    /\ calls < MaxCalls
    /\ calls' = calls + 1
    /\ LET built == TaskBuilder_build(TaskBuilder_from(cmd))
       IN  IF built.result # "ok"
           THEN /\ ret' = [Ret("add", built.result) EXCEPT
                             !.items = <<cmd>>]
                /\ UNCHANGED <<config_tasks, state_tasks, tasks, documents>>
           ELSE LET o == add_task(TheCatalog, Unwrap(built.config))
                IN  /\ Becomes(o.catalog)
                    /\ SaveIfOk(o)
                    /\ ret' = [CatRet("add", o) EXCEPT !.items = <<cmd>>]
    /\ UNCHANGED <<todays_tasks, last_generated, limit_by, clock,
                   effective_date>>

MissingSlug == SlugNames[MaxTasks + 1]
\* The slug lists of a batch command: any slugs, in any order, a slug
\* may be named more than once.
SlugLists ==
    UNION {[1..n -> Slugs \cup {MissingSlug}] : n \in 0..CatMaxBatch}

\* The slugs of a refresh command, which collects them into a set: one list
\* for each set.
RefreshLists ==
    {slugs \in SlugLists :
        \A i, j \in 1..Len(slugs) :
            i < j => slug_order(slugs[i]) < slug_order(slugs[j])}

TaskTitle(slug) == CASE slug = "a" -> "A" [] slug = "b" -> "B"
                     [] slug = "c" -> "C" [] OTHER -> "A B"

\* A config of the catalog document.
CatalogConfig(slug, the_disabled) ==
    [slug |-> Some(slug), task |-> TaskTitle(slug), description |-> None,
     weight |-> DEFAULT_WEIGHT, max_occurrences |-> None,
     min_frequency |-> None, disabled |-> the_disabled, tags |-> <<>>]

\* The configs a caller passes to add_task, update_task and upsert_task:
\* with an explicit slug and another title, or with the title alone, or
\* disabled for a day.
IncomingConfigs ==
    {[CatalogConfig(slug, the_disabled) EXCEPT !.task = "C"] :
        slug \in Slugs, the_disabled \in {Enabled, Disabled}}
    \cup {[CatalogConfig(slug, Enabled) EXCEPT !.slug = None] :
            slug \in {SlugNames[MaxTasks]}}
    \cup {[CatalogConfig(SlugNames[1], For(1)) EXCEPT !.task = "C"]}

\* The command lines of AddTaskCommand: a title, and no slug, an empty
\* one or an explicit one.
AddCommands ==
    {[slug |-> slug, task |-> task, weight |-> None, tags |-> <<>>,
      description |-> None, max_occurrences |-> None,
      min_frequency |-> None] :
        slug \in {None, Some(""), Some(SlugNames[1])},
        task \in {TaskTitle(SlugNames[1]), TaskTitle(MissingSlug)}}

\* From<UpdateTaskCommand> for TaskBuilder: slug is a required argument and
\* goes through the custom setter, task is set only when it was given.
TaskBuilder_from_update(cmd) ==
    LET required == TaskBuilder_slug(
                       [TaskBuilder_default EXCEPT
                          !.tags = Some(cmd.tags),
                          !.description = Some(cmd.description),
                          !.max_occurrences = Some(cmd.max_occurrences),
                          !.min_frequency = Some(cmd.min_frequency)],
                       cmd.slug)
        copied == IF cmd.weight = None THEN required
                  ELSE [required EXCEPT !.weight = cmd.weight]
    IN  IF cmd.task = None THEN copied
        ELSE [copied EXCEPT !.task = cmd.task]

\* UpdateTaskCommand: TaskBuilder::from(self).build()?,
\* state.update_task(task)?, state.save().
UpdateTaskCommand(cmd) ==
    /\ Alive
    /\ calls < MaxCalls
    /\ calls' = calls + 1
    /\ LET built == TaskBuilder_build(TaskBuilder_from_update(cmd))
       IN  IF built.result # "ok"
           THEN /\ ret' = [Ret("update", built.result) EXCEPT
                             !.items = <<cmd>>]
                /\ UNCHANGED <<config_tasks, state_tasks, tasks, documents>>
           ELSE LET o == update_task(TheCatalog, Unwrap(built.config))
                IN  /\ Becomes(o.catalog)
                    /\ SaveIfOk(o)
                    /\ ret' = [CatRet("update", o) EXCEPT !.items = <<cmd>>]
    /\ UNCHANGED <<todays_tasks, last_generated, limit_by, clock,
                   effective_date>>

\* The command lines of the update command: a slug of the catalog or a
\* missing one, with or without a new title.
UpdateCommands ==
    {[slug |-> slug, task |-> task, weight |-> None, tags |-> <<>>,
      description |-> None, max_occurrences |-> None,
      min_frequency |-> None] :
        slug \in {SlugNames[1], MissingSlug},
        task \in {None, Some(TaskTitle(SlugNames[2]))}}

\* From<UpsertTaskCommand> for TaskBuilder: the same fields as the update
\* command, slug required and task optional.
TaskBuilder_from_upsert(cmd) == TaskBuilder_from_update(cmd)

\* UpsertTaskCommand: TaskBuilder::from(self).build()?,
\* state.upsert_task(task), state.save().
UpsertTaskCommand(cmd) ==
    /\ Alive
    /\ calls < MaxCalls
    /\ calls' = calls + 1
    /\ LET built == TaskBuilder_build(TaskBuilder_from_upsert(cmd))
       IN  IF built.result # "ok"
           THEN /\ ret' = [Ret("upsert", built.result) EXCEPT
                             !.items = <<cmd>>]
                /\ UNCHANGED <<config_tasks, state_tasks, tasks, documents>>
           ELSE LET o == upsert_task(TheCatalog, Unwrap(built.config))
                IN  /\ Becomes(o.catalog)
                    /\ SaveIfOk(o)
                    /\ ret' = [CatRet("upsert", o) EXCEPT !.items = <<cmd>>]
    /\ UNCHANGED <<todays_tasks, last_generated, limit_by, clock,
                   effective_date>>

\* The command lines of the upsert command.
UpsertCommands == UpdateCommands

ConfigLists ==
    UNION {[1..n -> {c \in IncomingConfigs :
                        c.slug # None /\ c.disabled = Enabled}] :
             n \in 0..CatMaxConfigBatch}

\* Well-formed documents: any set of config entries, any set of state
\* entries (an entry without a config entry is an orphan), and a
\* todays_tasks of slugs that have both.
CatalogDocuments ==
    {Document(c, s, t, [day |-> -1, before |-> FALSE]) :
        c \in UNION {[C -> {CatalogConfig(x, d) :
                              x \in Slugs, d \in {Enabled, Disabled}}] :
                       C \in SUBSET Slugs},
        s \in UNION {[S -> {DefaultTaskState,
                            [DefaultTaskState EXCEPT !.disabled_on = Some(0)]}] :
                       S \in SUBSET Slugs},
        t \in SUBSET Slugs}

\* The entries of the two documents fit each other.
WellFormedEntries(doc) ==
    /\ \A x \in DOMAIN doc.config_tasks :
          doc.config_tasks[x].slug = Some(x)
    /\ \A x \in DOMAIN doc.state_tasks :
          doc.state_tasks[x].disabled_on # None
              => /\ x \in DOMAIN doc.config_tasks
                 /\ doc.config_tasks[x].disabled = Disabled

WellFormed(doc) ==
    /\ WellFormedEntries(doc)
    /\ doc.todays_tasks \subseteq loaded_tasks(doc)

\* A run that has just loaded well-formed documents.
InitCatalog ==
    /\ clock = [day |-> 0, before |-> FALSE]
    /\ limit_by = DefaultLimitBy
    /\ \E files \in FilesOf({doc \in CatalogDocuments : WellFormed(doc)}) :
          Loaded(files)

NextCatalog ==
    \/ \E task_config \in IncomingConfigs : AddTask(task_config)
    \/ \E slug \in Slugs : RemoveTask(slug)
    \/ \E task_config \in IncomingConfigs : UpdateTask(task_config)
    \/ \E task_config \in IncomingConfigs : UpsertTask(task_config)
    \/ \E slug \in Slugs : EnableTask(slug)
    \/ \E slug \in Slugs : DisableTask(slug)
    \/ \E configs \in ConfigLists : AddTasks(configs)
    \/ \E configs \in ConfigLists : UpdateTasks(configs)
    \/ \E slugs \in SlugLists : EnableTaskCommand(slugs)
    \/ \E slugs \in SlugLists : DisableTaskCommand(slugs)
    \/ \E slugs \in SlugLists : RemoveTaskCommand(slugs)
    \/ \E slugs \in SlugLists : CompleteTaskCommand(slugs)
    \/ \E cmd \in AddCommands : AddTaskCommand(cmd)
    \/ \E cmd \in UpdateCommands : UpdateTaskCommand(cmd)
    \/ \E cmd \in UpsertCommands : UpsertTaskCommand(cmd)
    \/ \E configs \in ConfigLists : UpsertTasks(configs)
    \/ \E update \in BOOLEAN, configs \in ConfigLists :
          ImportTaskCommand(update, configs)
    \/ \E slugs \in RefreshLists, completed \in BOOLEAN :
          RefreshTodaysTasksCommand(slugs, completed)
    \/ PickTodaysTasks
    \/ Save
    \/ Load

SpecCatalog == InitCatalog /\ [][NextCatalog]_vars

(* ------------------ runs over any pair of documents -------------------- *)
\* The documents a run can find: entries that fit each other, a
\* todays_tasks of slugs that have a state entry (the config entry of a
\* slug picked earlier may have been deleted since, or the daily count
\* lowered), written the day before or earlier on the effective day.
LoadableDocuments ==
    {[doc EXCEPT !.last_generated = [day |-> d, before |-> FALSE]] :
        doc \in {doc \in CatalogDocuments :
                    /\ WellFormedEntries(doc)
                    /\ doc.todays_tasks \subseteq DOMAIN doc.state_tasks},
        d \in {-1, 0}}

\* A run that has just loaded them.
InitDocuments ==
    /\ clock = [day |-> 0, before |-> FALSE]
    /\ limit_by = DefaultLimitBy
    /\ \E files \in FilesOf(LoadableDocuments) : Loaded(files)

NextDocuments ==
    \/ PickTodaysTasks
    \/ \E s \in Slugs : CompleteTask(s)
    \/ \E slug \in Slugs : EnableTask(slug)
    \/ \E slug \in Slugs : DisableTask(slug)
    \/ \E slugs \in RefreshLists, completed \in BOOLEAN :
          RefreshTodaysTasksCommand(slugs, completed)
    \/ ResetTodaysTasksCommand
    \/ Tick
    \/ Save
    \/ Load

SpecDocuments == InitDocuments /\ [][NextDocuments]_vars

(* ----------------------------- merge, applied -------------------------- *)
MergeSlug == SlugNames[1]
MergeTagNames == {"x", "y"}
MergeTagLists == UNION {[1..n -> MergeTagNames] : n \in 0..MergeMaxTags}

\* The configs of a task of the catalog.
MergeBaseConfigs ==
    [slug : {Some(MergeSlug)}, task : {"A"},
     description : {Some("d")},
     weight : {DEFAULT_WEIGHT, 2},
     max_occurrences : {None, Some(2)},
     min_frequency : {None, Some(2)},
     disabled : {Enabled, Disabled},
     tags : MergeTagLists]

\* The configs a caller can build for an update of that task.
MergeIncomingConfigs ==
    [slug : {Some(MergeSlug)}, task : {"", "B"},
     description : {None, Some(""), Some("e")},
     weight : {DEFAULT_WEIGHT, 0},
     max_occurrences : {None, Some(0), Some(3)},
     min_frequency : {None, Some(0), Some(3)},
     disabled : {Enabled, Disabled, For(1)},
     tags : MergeTagLists]

InitMerge ==
    /\ config_tasks \in [{MergeSlug} -> MergeBaseConfigs]
    /\ state_tasks = [s \in {MergeSlug} |-> DefaultTaskState]
    /\ tasks = {MergeSlug}
    /\ todays_tasks = {}
    /\ clock = [day |-> 0, before |-> FALSE]
    /\ last_generated = [day |-> clock.day - 1, before |-> clock.before]
    /\ limit_by = [kind |-> "Tasks", n |-> 1]
    /\ effective_date = None
    /\ documents = Document(config_tasks, state_tasks, todays_tasks,
                            last_generated)
    /\ calls = 0
    /\ ret = Ret("load", "ok")

\* base += incoming on the config of the task
MergeConfig(other) ==
    /\ ret.op = "load"
    /\ config_tasks' = [config_tasks EXCEPT ![MergeSlug] = merge(@, other)]
    /\ ret' = [Ret("merge", "ok") EXCEPT
                 !.slug = MergeSlug, !.incoming = Some(other),
                 !.pre_config = Some(config_tasks[MergeSlug])]
    /\ UNCHANGED <<calls, state_tasks, tasks, todays_tasks, last_generated,
                   limit_by, clock, effective_date, documents>>

\* The same incoming config is merged a second time.
MergeConfigAgain ==
    /\ ret.op = "merge"
    /\ config_tasks' = [config_tasks EXCEPT
                          ![MergeSlug] = merge(@, Unwrap(ret.incoming))]
    /\ ret' = [ret EXCEPT !.op = "merge_again",
                          !.pre_config = Some(config_tasks[MergeSlug])]
    /\ UNCHANGED <<calls, state_tasks, tasks, todays_tasks, last_generated,
                   limit_by, clock, effective_date, documents>>

NextMerge ==
    \/ \E other \in MergeIncomingConfigs : MergeConfig(other)
    \/ MergeConfigAgain

SpecMerge == InitMerge /\ [][NextMerge]_vars

(* ============================ the claims =============================== *)
\* The task the last eligibility evaluation was about.
RetConfig == config_tasks[ret.slug]
RetState == state_tasks[ret.slug]
ChoosableReturned == ret.op = "choosable" /\ ret.result = "ok"
DisabledReturned == ret.op = "disabled" /\ ret.result = "ok"

BelowMaxOccurrences(cfg, st) ==
    \/ cfg.max_occurrences = None
    \/ st.times_completed < Unwrap(cfg.max_occurrences)

MinFrequencyPassed(cfg, st) ==
    \/ cfg.min_frequency = None
    \/ st.last_chosen = None
    \/ todays_date - Unwrap(st.last_chosen) >= Unwrap(cfg.min_frequency)

\* C1: choosable(task, state) is true exactly when all four conditions
\* hold: the task is not disabled, its slug is not in todays_tasks,
\* times_completed < max_occurrences when that is set, and last_chosen is
\* unset or at least min_frequency days back when that is set.
C1_ChoosableIffAllFour ==
    ChoosableReturned =>
        (ret.value <=> /\ ~disabled(ret.slug)
                       /\ ret.slug \notin todays_tasks
                       /\ BelowMaxOccurrences(RetConfig, RetState)
                       /\ MinFrequencyPassed(RetConfig, RetState))

\* C6: for an enabled task that is not in todays_tasks and is below its
\* max_occurrences, with min_frequency = D: choosable is false iff
\* last_chosen = today - k with k < D, and true when last_chosen is unset.
C6_MinFrequencyDecides ==
    (/\ ChoosableReturned
     /\ RetConfig.disabled.kind = "Enabled"
     /\ ret.slug \notin todays_tasks
     /\ BelowMaxOccurrences(RetConfig, RetState)
     /\ RetConfig.min_frequency # None)
    => IF RetState.last_chosen = None
       THEN ret.value
       ELSE (~ret.value <=>
                todays_date - Unwrap(RetState.last_chosen)
                    < Unwrap(RetConfig.min_frequency))

\* C7: with disabled = For(n), disabled() is true exactly while
\* days_since_today(disabled_on) < n, and false from the n-th day on.
C7_ForDisablesForNDays ==
    (DisabledReturned /\ RetConfig.disabled.kind = "For")
    => (ret.value <=>
            todays_date - Unwrap(RetState.disabled_on)
                < RetConfig.disabled.arg)

\* C8: with disabled = Until(date), disabled() is true exactly when
\* date >= todays_date(); Enabled gives false and Disabled gives true.
C8_UntilInclusive ==
    DisabledReturned =>
        /\ RetConfig.disabled.kind = "Until"
              => (ret.value <=> RetConfig.disabled.arg >= todays_date)
        /\ RetConfig.disabled.kind = "Enabled" => ~ret.value
        /\ RetConfig.disabled.kind = "Disabled" => ret.value

\* C8 witness: disabled() was evaluated on the Until date itself and said
\* the task is still disabled.
C8_Witness ==
    /\ DisabledReturned
    /\ RetConfig.disabled.kind = "Until"
    /\ RetConfig.disabled.arg = todays_date
    /\ ret.value

PickDone == ret.op = "pick"
PickReturned == PickDone /\ ret.result \in {"true", "false"}

\* C2: with a catalog of exactly two tasks a (weight 1, disabled) and b
\* (weight 1, enabled), an empty todays_tasks and a fixed daily target of 1,
\* every outcome of pick_todays_tasks leaves todays_tasks = {b}.
C2_PickerSelectsEnabledTask ==
    (/\ PickDone
     /\ tasks = {"a", "b"}
     /\ config_tasks["a"] = [weight |-> DEFAULT_WEIGHT, disabled |-> Disabled,
                             max_occurrences |-> None, min_frequency |-> None]
     /\ config_tasks["b"] = [weight |-> DEFAULT_WEIGHT, disabled |-> Enabled,
                             max_occurrences |-> None, min_frequency |-> None]
     /\ ret.pre_todays = {}
     /\ limit_by = [kind |-> "Tasks", n |-> 1])
    => todays_tasks = {"b"}

\* C3: when pick_todays_tasks is invoked right after a pick_todays_tasks
\* of the same effective day, the second call computes needed <= 0, draws
\* nothing, returns false and leaves todays_tasks and every task state as
\* the first call left them, also after a partial fill.
C3_PickIdempotent ==
    (PickDone /\ ret.after_pick)
    => /\ ret.result = "false"
       /\ ret.needed <= 0
       /\ ret.drawn = {}
       /\ todays_tasks = ret.pre_todays
       /\ state_tasks = ret.pre_state

\* C4: when pick_todays_tasks runs on a day rollover, every slug that was
\* in todays_tasks is removed before the draw is counted, completed or not,
\* so afterwards todays_tasks holds only the tasks drawn in this call.
C4_RolloverClears ==
    (PickDone /\ ret.rollover)
    => /\ ret.at_draw = {}
       /\ todays_tasks \subseteq ret.drawn
       /\ ret.result = "true" => todays_tasks = ret.drawn

\* C4 witness: a rollover pick that found in todays_tasks a completed and
\* an uncompleted task, both chosen by an earlier pick, dropped the
\* completed one and drew another task.
C4_Witness ==
    /\ PickDone
    /\ ret.rollover
    /\ ret.result = "true"
    /\ ret.drawn # {}
    /\ \E s \in ret.pre_todays :
          /\ ret.pre_state[s].completed
          /\ ret.pre_state[s].last_chosen # None
          /\ s \notin todays_tasks
    /\ \E s \in ret.pre_todays :
          /\ ~ret.pre_state[s].completed
          /\ ret.pre_state[s].last_chosen # None

\* C5: a task with max_occurrences = N whose times_completed has reached N
\* is not choosable, and the picker never adds it to todays_tasks again.
C5_MaxOccurrencesBlocks ==
    /\ \A s \in tasks :
          (/\ ~disabled_aborts(s)
           /\ ~BelowMaxOccurrences(config_tasks[s], state_tasks[s]))
          => ~choosable(s, todays_tasks)
    /\ PickDone =>
          \A s \in ret.drawn :
              BelowMaxOccurrences(config_tasks[s], ret.pre_state[s])

\* C5 witness: a draw with room left passed over a task that had reached
\* its max_occurrences and was otherwise eligible to the picker.
C5_Witness ==
    /\ PickDone
    /\ ret.result = "true"
    /\ ret.needed > Cardinality(ret.drawn)
    /\ \E s \in tasks \ ret.drawn :
          /\ ~BelowMaxOccurrences(config_tasks[s], ret.pre_state[s])
          /\ config_tasks[s].weight > 0
          /\ config_tasks[s].disabled.kind = "Disabled"
          /\ \/ config_tasks[s].min_frequency = None
             \/ ret.pre_state[s].last_chosen = None

\* C9: when fewer tasks are choosable than needed, pick_todays_tasks does
\* not return an error: it adds the choosable tasks it can draw to
\* todays_tasks and returns normally.
C9_DeficientDrawIsNoError ==
    (/\ PickDone
     /\ ret.result # "panic"
     /\ ret.needed > 0
     /\ Cardinality(ret.cands) < ret.needed)
    => /\ ret.result \in {"true", "false"}
       /\ ret.drawn \subseteq ret.cands
       /\ todays_tasks = ret.at_draw \cup ret.drawn

\* C10: pick_todays_tasks returns true if and only if this call added a
\* slug that was not in todays_tasks at the start of the draw.
C10_TrueIffAdded ==
    PickReturned =>
        (ret.result = "true" <=> todays_tasks \ ret.at_draw # {})

\* C11: whenever pick_todays_tasks returns false, the runtime state after
\* the call equals the state before it: todays_tasks, last_generated and
\* every task's state entry are unchanged, so skipping save() loses nothing.
C11_FalseLeavesStateUnchanged ==
    [][(ret'.op = "pick" /\ ret'.result = "false")
       => UNCHANGED <<todays_tasks, last_generated, state_tasks>>]_vars

\* C20: within one process run todays_date() returns the same date on
\* every call, also when the wall clock crosses the cut-off or midnight
\* between two calls.
C20_TodaysDateFixedInRun ==
    [][(effective_date # None /\ effective_date' # None)
       => todays_date' = todays_date]_vars

\* C20 witness: a second pick of one run was made, and stamped
\* last_generated, when the wall clock had moved to another effective day
\* than the one the run had fixed.
C20_Witness ==
    /\ PickDone
    /\ ret.after_pick
    /\ ret.result = "true"
    /\ effective_date # None
    /\ dt_with_cutoff(last_generated) # Unwrap(effective_date)

\* The elements of a list, and whether no element occurs twice in it.
Elements(vec) == {vec[i] : i \in 1..Len(vec)}
NoDuplicates(vec) ==
    \A i, j \in 1..Len(vec) : vec[i] = vec[j] => i = j

\* C16: merge(base, incoming) replaces a base field only when the incoming
\* value is not the default (empty title, weight 1.0, unset or zero
\* min_frequency / max_occurrences, Enabled), leaves the slug unchanged and
\* sets tags to the union of both tag lists without duplicates; merging the
\* same incoming config a second time changes nothing.
C16_MergeOverridesNonDefaults ==
    /\ ret.op = "merge" =>
         LET base == Unwrap(ret.pre_config)
             incoming == Unwrap(ret.incoming)
             merged == config_tasks[ret.slug]
             unset_or_zero(opt) == opt = None \/ opt = Some(0)
         IN  /\ merged.task =
                  IF incoming.task = "" THEN base.task ELSE incoming.task
             /\ merged.weight =
                  IF incoming.weight = 1 THEN base.weight
                  ELSE incoming.weight
             /\ merged.min_frequency =
                  IF unset_or_zero(incoming.min_frequency)
                  THEN base.min_frequency ELSE incoming.min_frequency
             /\ merged.max_occurrences =
                  IF unset_or_zero(incoming.max_occurrences)
                  THEN base.max_occurrences ELSE incoming.max_occurrences
             /\ merged.disabled =
                  IF incoming.disabled.kind = "Enabled" THEN base.disabled
                  ELSE incoming.disabled
             /\ merged.slug = base.slug
             /\ Elements(merged.tags) =
                  Elements(base.tags) \cup Elements(incoming.tags)
             /\ NoDuplicates(merged.tags)
    /\ ret.op = "merge_again" =>
         config_tasks[ret.slug] = Unwrap(ret.pre_config)

\* A step that is one call of the catalog operation op.
CallOf(op) == ret'.op = op /\ calls' = calls + 1

\* C12: in every state reachable by add_task, remove_task, enable, disable,
\* complete and pick operations, every slug in todays_tasks resolves to a
\* task of the live catalog.
C12_TodaysTasksResolve == todays_tasks \subseteq tasks

\* C13: add_task with a slug that is already in the catalog fails with
\* TaskAlreadyExists(slug) and leaves the config catalog, the state map and
\* the live task map as they were.
C13_DuplicateAddChangesNothing ==
    [][(/\ CallOf("add_task")
        /\ TaskConfig_slug(Unwrap(ret'.incoming)) \in DOMAIN config_tasks)
       => /\ ret'.result = "TaskAlreadyExists"
          /\ ret'.slug = TaskConfig_slug(Unwrap(ret'.incoming))
          /\ UNCHANGED <<config_tasks, state_tasks, tasks>>]_vars

\* C13 witness: add_task was refused for the slug of a live task whose
\* title and disabled option differ from the incoming ones.
C13_Witness ==
    /\ ret.op = "add_task"
    /\ ret.result = "TaskAlreadyExists"
    /\ ret.slug \in tasks
    /\ config_tasks[ret.slug].task # Unwrap(ret.incoming).task
    /\ config_tasks[ret.slug].disabled # Unwrap(ret.incoming).disabled
    /\ state_tasks[ret.slug] # DefaultTaskState

\* C14: upsert_task never fails or aborts, whatever the task config and
\* the state: it updates the task when the slug is live and adds it
\* otherwise.
C14_UpsertNeverFails ==
    [][CallOf("upsert_task")
       => LET task_config == Unwrap(ret'.incoming)
              slug == TaskConfig_slug(task_config)
          IN  /\ ret'.result = "ok"
              /\ slug \in tasks'
              /\ config_tasks'[slug] =
                   IF slug \in tasks
                   THEN merge(config_tasks[slug], task_config)
                   ELSE slug_materialized(task_config)]_vars

\* C15: update_task fails with TaskNotFound(slug) and changes nothing when
\* the slug is not live; when it is live the incoming config is merged into
\* the existing one, and the task's slug, its state entry and its
\* membership in todays_tasks stay as they were, whatever the new title.
C15_UpdateMergesAndKeepsSlug ==
    [][CallOf("update_task")
       => LET task_config == Unwrap(ret'.incoming)
              slug == TaskConfig_slug(task_config)
          IN  /\ ret'.slug = slug
              /\ UNCHANGED <<state_tasks, tasks, todays_tasks>>
              /\ IF slug \notin tasks
                 THEN /\ ret'.result = "TaskNotFound"
                      /\ UNCHANGED config_tasks
                 ELSE /\ ret'.result = "ok"
                      /\ DOMAIN config_tasks' = DOMAIN config_tasks
                      /\ \A s \in DOMAIN config_tasks \ {slug} :
                            config_tasks'[s] = config_tasks[s]
                      /\ config_tasks'[slug] =
                            merge(config_tasks[slug], task_config)
                      /\ config_tasks'[slug].slug = Some(slug)
                      /\ TaskConfig_slug(config_tasks'[slug]) = slug]_vars

\* C15 witness: a task of today's set got a new title, whose derived slug
\* would be another one, and is still live under its slug.
C15_Witness ==
    /\ ret.op = "update_task"
    /\ ret.result = "ok"
    /\ ret.slug \in tasks
    /\ ret.slug \in todays_tasks
    /\ config_tasks[ret.slug].task = Unwrap(ret.incoming).task
    /\ get_default_slug(config_tasks[ret.slug].task) # ret.slug
    /\ documents.config_tasks[ret.slug].task # config_tasks[ret.slug].task

\* C17: enable_task and disable_task change config and state together:
\* after disable_task the task has disabled = Disabled and disabled_on set,
\* after enable_task it has disabled = Enabled and disabled_on unset, and
\* on a slug that is not live they fail with TaskNotFound and change
\* neither.
C17_EnableDisableTogether ==
    [][/\ CallOf("enable_task") =>
            IF ret'.slug \in tasks
            THEN /\ ret'.result = "ok"
                 /\ config_tasks'[ret'.slug].disabled = Enabled
                 /\ state_tasks'[ret'.slug].disabled_on = None
            ELSE /\ ret'.result = "TaskNotFound"
                 /\ UNCHANGED <<config_tasks, state_tasks>>
       /\ CallOf("disable_task") =>
            IF ret'.slug \in tasks
            THEN /\ ret'.result = "ok"
                 /\ config_tasks'[ret'.slug].disabled = Disabled
                 /\ state_tasks'[ret'.slug].disabled_on # None
            ELSE /\ ret'.result = "TaskNotFound"
                 /\ UNCHANGED <<config_tasks, state_tasks>>]_vars

\* C17 witness: enable_task on a task that the documents hold as Disabled
\* with its disabled_on date.
C17_Witness ==
    /\ ret.op = "enable_task"
    /\ ret.result = "ok"
    /\ ret.slug \in DOMAIN documents.config_tasks
    /\ ret.slug \in DOMAIN documents.state_tasks
    /\ documents.config_tasks[ret.slug].disabled = Disabled
    /\ documents.state_tasks[ret.slug].disabled_on # None
    /\ config_tasks[ret.slug].disabled = Enabled
    /\ state_tasks[ret.slug].disabled_on = None

\* The single operation a batch operation applies to each item.
SingleOf(batch) ==
    CASE batch = "enable_tasks" -> "enable_task"
      [] batch = "disable_tasks" -> "disable_task"
      [] batch = "remove_tasks" -> "remove_task"
      [] batch = "add_tasks" -> "add_task"
      [] batch = "update_tasks" -> "update_task"

\* The catalog after the single operation was applied to each item in turn.
RECURSIVE AppliedInOrder(_, _, _)
AppliedInOrder(op, catalog, items) ==
    IF items = <<>> THEN catalog
    ELSE AppliedInOrder(op, call(op, catalog, Head(items)).catalog,
                        Tail(items))

\* C18: a batch operation (enable_tasks, disable_tasks, remove_tasks,
\* add_tasks, update_tasks) that fails has stopped at the first item that
\* fails: it returns that item's error, the items before it keep their
\* mutation in memory, the items after it are untouched, and neither
\* document has been written.
C18_BatchStopsAtFirstError ==
    [][\A batch \in {"enable_tasks", "disable_tasks", "remove_tasks",
                     "add_tasks", "update_tasks"} :
          (CallOf(batch) /\ ret'.result # "ok")
          => \E k \in 1..Len(ret'.items) :
                LET before == SubSeq(ret'.items, 1, k - 1)
                    kept == AppliedInOrder(SingleOf(batch), TheCatalog,
                                           before)
                    failed == call(SingleOf(batch), kept, ret'.items[k])
                IN  /\ \A i \in 1..(k - 1) :
                          call(SingleOf(batch),
                               AppliedInOrder(SingleOf(batch), TheCatalog,
                                              SubSeq(ret'.items, 1, i - 1)),
                               ret'.items[i]).result = "ok"
                    /\ failed.result = ret'.result
                    /\ failed.slug = ret'.slug
                    /\ Catalog(config_tasks', state_tasks', tasks') = kept
                    /\ documents' = documents]_vars

\* C18 witness: disable_tasks on a live task and a missing slug returned
\* TaskNotFound; the first task is disabled in memory only, and another
\* live task is as it was.
C18_Witness ==
    /\ ret.op = "disable_tasks"
    /\ ret.result = "TaskNotFound"
    /\ Len(ret.items) = 2
    /\ ret.slug = ret.items[2]
    /\ ret.items[1] \in tasks
    /\ config_tasks[ret.items[1]].disabled = Disabled
    /\ state_tasks[ret.items[1]].disabled_on # None
    /\ documents.config_tasks[ret.items[1]].disabled = Enabled
    /\ \E s \in tasks \ {ret.items[1]} :
          /\ config_tasks[s].disabled = Enabled
          /\ state_tasks[s].disabled_on = None

\* How many times a list names x.
Occurrences(vec, x) == Cardinality({i \in 1..Len(vec) : vec[i] = x})

\* C19: each complete() sets completed and adds exactly 1 to
\* times_completed (a command that names a task k times calls complete()
\* k times on it), and over any operation of a run (choose, reset, enable,
\* disable, update, pick, ...) a live task's times_completed never
\* decreases.
C19_TimesCompletedCounts ==
    [][/\ (CallOf("complete_tasks") /\ ret'.result = "ok") =>
            \A i \in 1..Len(ret'.items) :
                /\ state_tasks'[ret'.items[i]].completed
                /\ state_tasks'[ret'.items[i]].times_completed =
                     state_tasks[ret'.items[i]].times_completed
                         + Occurrences(ret'.items, ret'.items[i])
       /\ ~(ret'.op = "load" /\ ret.op # "load") =>
            \A s \in tasks \cap tasks' :
                state_tasks'[s].times_completed
                    >= state_tasks[s].times_completed]_vars

\* C19 witness: a task that was picked and then completed twice.
C19_Witness ==
    /\ ret.op = "complete_tasks"
    /\ ret.result = "ok"
    /\ \E s \in tasks :
          /\ state_tasks[s].completed
          /\ state_tasks[s].times_completed = 2
          /\ state_tasks[s].last_chosen # None

(* --------------------------- orphaned entries -------------------------- *)
\* The state entries of the documents that have no config entry.
Orphans == DOMAIN documents.state_tasks \ DOMAIN documents.config_tasks

\* C21: loading well-formed documents succeeds and leaves every orphaned
\* state entry out of the live map, and a later command that returns from
\* the picker then lists today's tasks without an error, also when an
\* orphaned slug is in the persisted todays_tasks.
C21_OrphansNeverFail ==
    /\ ret.op = "load" => /\ ret.result = "ok"
                          /\ tasks \cap Orphans = {}
    /\ (ret.op = "pick" /\ ret.result \in {"true", "false"})
           => ret.listed = "ok"

(* ----------------------------- save and load --------------------------- *)
\* C22: State::load right after State::save gives back the live catalog
\* that was saved: the same slugs (a removed task stays absent), the same
\* config and state values of each, and the same todays_tasks.
C22_SaveLoadRoundTrip ==
    [][(ret.op = "save" /\ ret'.op = "load")
          => /\ tasks' = tasks
             /\ \A s \in tasks : /\ config_tasks'[s] = config_tasks[s]
                                 /\ state_tasks'[s] = state_tasks[s]
             /\ todays_tasks' = todays_tasks]_vars

(* ------------------------- weights in the draw ------------------------- *)
\* C23: in a draw, a candidate with weight <= 0 is never selected while a
\* candidate with positive weight is still unselected and the quota is
\* unmet, and a zero or negative weight on a candidate does not make the
\* draw fail.
C23_NonPositiveWeightNeverWins ==
    (PickDone /\ ret.result # "panic" /\ ret.needed > 0)
    => /\ ret.result # "err"
       /\ \A s \in ret.drawn :
             config_tasks[s].weight <= 0
                => \A t \in ret.cands \ ret.drawn :
                      config_tasks[t].weight <= 0

(* ---------------------------- the spoon budget ------------------------- *)
\* C24: in spoon-budget mode, when the spoons of today's tasks are below
\* the budget, pick_todays_tasks terminates normally and returns a bool.
C24_SpoonModeReturns ==
    (/\ PickDone
     /\ limit_by.kind = "Spoons"
     /\ current_spoons(ret.at_draw) < limit_by.n)
    => ret.result \in {"true", "false"}

(* -------------------------- adding and removing ------------------------ *)
\* C25: add_task with a slug that is not in the config catalog succeeds
\* and registers the task in the config catalog, the state map and the live
\* map, with the default state (not completed, times_completed 0,
\* last_chosen and disabled_on unset); every other task is unchanged.
C25_AddTaskRegisters ==
    [][(/\ CallOf("add_task")
        /\ TaskConfig_slug(Unwrap(ret'.incoming)) \notin DOMAIN config_tasks)
       => LET slug == TaskConfig_slug(Unwrap(ret'.incoming))
          IN  /\ ret'.result = "ok"
              /\ DOMAIN config_tasks' = DOMAIN config_tasks \cup {slug}
              /\ DOMAIN state_tasks' = DOMAIN state_tasks \cup {slug}
              /\ tasks' = tasks \cup {slug}
              /\ config_tasks'[slug] =
                     slug_materialized(Unwrap(ret'.incoming))
              /\ state_tasks'[slug] =
                     [completed |-> FALSE, times_completed |-> 0,
                      last_chosen |-> None, disabled_on |-> None]
              /\ \A t \in DOMAIN config_tasks :
                     config_tasks'[t] = config_tasks[t]
              /\ \A t \in DOMAIN state_tasks \ {slug} :
                     state_tasks'[t] = state_tasks[t]]_vars

\* C25 witness: add_task registered a new slug next to a live task whose
\* state is not the default one.
C25_Witness ==
    /\ ret.op = "add_task"
    /\ ret.result = "ok"
    /\ ret.slug \in tasks
    /\ ret.slug \in DOMAIN config_tasks
    /\ state_tasks[ret.slug] = DefaultTaskState
    /\ \E t \in tasks \ {ret.slug} : state_tasks[t] # DefaultTaskState

\* C26: remove_task(slug) fails with TaskNotFound and changes nothing when
\* the slug is not in the live map; when it is, get_task no longer returns
\* the slug, it is no longer listed among the tasks, and every other task
\* is unchanged.
C26_RemoveTask ==
    [][CallOf("remove_task")
       => IF ret'.slug \notin tasks
          THEN /\ ret'.result = "TaskNotFound"
               /\ UNCHANGED <<config_tasks, state_tasks, tasks,
                              todays_tasks, last_generated, documents>>
          ELSE /\ ret'.result = "ok"
               /\ get_task(TheCatalog', ret'.slug) = None
               /\ task_names(TheCatalog') = tasks \ {ret'.slug}
               /\ \A t \in tasks \ {ret'.slug} :
                     /\ get_task(TheCatalog', t) = Some(t)
                     /\ config_tasks'[t] = config_tasks[t]
                     /\ state_tasks'[t] = state_tasks[t]]_vars

\* C26 witness: remove_task took a task out of the live map and left a
\* live task with a state of its own.
C26_Witness ==
    /\ ret.op = "remove_task"
    /\ ret.result = "ok"
    /\ get_task(TheCatalog, ret.slug) = None
    /\ ret.slug \in DOMAIN config_tasks
    /\ \E t \in tasks : state_tasks[t] # DefaultTaskState

(* ------------------------------- the slug ------------------------------ *)
\* C27: creating a task with a non-empty title and no explicit slug
\* succeeds and gives it the slug derived from the title; and the slug of
\* a catalog entry, once materialized, is the same after every operation.
C27_SlugDerivedAndStable ==
    [][/\ (/\ CallOf("add")
           /\ ret'.items[1].slug = None
           /\ ret'.items[1].task # ""
           /\ get_default_slug(ret'.items[1].task) \notin DOMAIN config_tasks)
          => LET slug == get_default_slug(ret'.items[1].task)
             IN  /\ ret'.result = "ok"
                 /\ slug \in tasks'
                 /\ config_tasks'[slug].slug = Some(slug)
       /\ \A s \in DOMAIN config_tasks \cap DOMAIN config_tasks' :
             config_tasks[s].slug # None
                => config_tasks'[s].slug = config_tasks[s].slug]_vars

(* ------------------------- the count still needed ---------------------- *)
\* C29: in fixed-count mode on the same effective day, when todays_tasks
\* holds more slugs than the daily count, pick_todays_tasks draws nothing,
\* adds nothing and returns false, without failing and without wrapping.
C29_NeededIsSigned ==
    (/\ PickDone
     /\ limit_by.kind = "Tasks"
     /\ ~ret.rollover
     /\ Cardinality(ret.pre_todays) > limit_by.n)
    => /\ ret.result = "false"
       /\ ret.needed <= 0
       /\ ret.drawn = {}
       /\ todays_tasks = ret.pre_todays

(* --------------------------- what a draw adds -------------------------- *)
\* The four conditions of choosable, as they stood right before the draw
\* of the last pick.
WasChoosable(s) ==
    /\ ~disabled(s)
    /\ s \notin ret.at_draw
    /\ BelowMaxOccurrences(config_tasks[s], ret.pre_state[s])
    /\ MinFrequencyPassed(config_tasks[s], ret.pre_state[s])

\* C30: every slug that one pick call adds belonged to a task that was
\* choosable right before the draw, and the call adds min(needed, number
\* of choosable tasks with positive weight) slugs, each once.
C30_AddedWereChoosable ==
    (PickDone /\ ret.result = "true")
    => LET added == todays_tasks \ ret.at_draw
           eligible == {s \in tasks : WasChoosable(s)}
           positive == {s \in eligible : config_tasks[s].weight > 0}
       IN  /\ added \subseteq eligible
           /\ Cardinality(added) = Min(ret.needed, Cardinality(positive))

(* --------------------------- the drawn tasks --------------------------- *)
\* C31: for every task drawn by pick_todays_tasks, after the call its
\* completed flag is false, its last_chosen is todays_date(), its
\* times_completed is unchanged and its slug is in todays_tasks; a task
\* that was not drawn keeps its completed, last_chosen and times_completed.
C31_DrawnTasksAreChosen ==
    PickDone
    => /\ \A s \in ret.drawn :
             /\ ~state_tasks[s].completed
             /\ state_tasks[s].last_chosen = Some(todays_date)
             /\ state_tasks[s].times_completed =
                    ret.pre_state[s].times_completed
             /\ s \in todays_tasks
       /\ \A s \in DOMAIN state_tasks \ ret.drawn :
             /\ state_tasks[s].completed = ret.pre_state[s].completed
             /\ state_tasks[s].last_chosen = ret.pre_state[s].last_chosen
             /\ state_tasks[s].times_completed =
                    ret.pre_state[s].times_completed

\* C31 witness: a pick drew a task that had been completed, and left alone
\* another completed task.
C31_Witness ==
    /\ PickDone
    /\ ret.result = "true"
    /\ \E s \in ret.drawn :
          /\ ret.pre_state[s].completed
          /\ ret.pre_state[s].times_completed > 0
          /\ ret.pre_state[s].last_chosen # Some(todays_date)
    /\ \E t \in tasks \ ret.drawn : ret.pre_state[t].completed

(* --------------------------- the day of disable ------------------------ *)
\* C32: right after disable_task the recorded disabled_on is the effective
\* day, days_since_today(disabled_on) = 0, also when the wall clock is
\* before the cut-off and the calendar date is the day after.
C32_DisabledOnIsEffectiveDay ==
    (ret.op = "disable_task" /\ ret.result = "ok")
    => days_since_today(Unwrap(state_tasks[ret.slug].disabled_on)) = 0

(* ------------------------------- refresh ------------------------------- *)
\* C33: after a successful refresh of a set of today's tasks, none of the
\* named slugs is in todays_tasks, and every slug reported as new was not
\* in todays_tasks before the command.
C33_RefreshReplaces ==
    (/\ ret.op = "refresh"
     /\ ret.result \in {"true", "false"}
     /\ ret.listed = "ok")
    => /\ Elements(ret.items) \cap todays_tasks = {}
       /\ ret.new_tasks \cap ret.pre_todays = {}

(* ------------------------- disabled for n days ------------------------- *)
\* C34: in every state reached through add_task, update_task, upsert_task,
\* enable_task, disable_task and load, a live task whose disabled option is
\* For(n) has disabled_on set, so that Task::disabled, and with it
\* choosable and status, never aborts on a task of the catalog.
C34_ForHasDisabledOn ==
    (ret.op \in {"load", "add_task", "update_task", "upsert_task",
                 "enable_task", "disable_task"})
    => \A s \in tasks :
          /\ config_tasks[s].disabled.kind = "For"
                => state_tasks[s].disabled_on # None
          /\ ~disabled_aborts(s)

(* ------------------------- removal, then what -------------------------- *)
\* C35: after remove_task(slug) succeeded, add_task with the same slug in
\* the same run succeeds with a default state; and after save and a later
\* load a removed slug is not in the live task map.
C35_RemovalIsComplete ==
    [][/\ (/\ ret.op = "remove_task"
           /\ ret.result = "ok"
           /\ CallOf("add_task")
           /\ TaskConfig_slug(Unwrap(ret'.incoming)) = ret.slug)
          => /\ ret'.result = "ok"
             /\ ret.slug \in tasks'
             /\ state_tasks'[ret.slug] = DefaultTaskState
       /\ (ret.op = "save" /\ ret'.op = "load")
          => \A s \in (DOMAIN config_tasks \cap DOMAIN state_tasks) \ tasks :
                s \notin tasks']_vars

(* -------------------------- config-only entries ------------------------ *)
\* C36: after load every task of the config catalog is in the live task
\* map: a config entry without a state entry is loaded with a state of
\* its own.
C36_ConfigEntriesAreLive ==
    ret.op = "load"
    => \A s \in DOMAIN config_tasks :
          /\ s \in tasks
          /\ s \in DOMAIN state_tasks

(* ----------------------- the size of todays_tasks ---------------------- *)
\* C37: in fixed-count mode with the daily target n, no pick, refresh,
\* reset, complete, enable, disable or day-rollover step takes a
\* todays_tasks of at most n slugs, in memory and in the state document,
\* to one of more than n: starting from an empty todays_tasks its size
\* never exceeds n.
C37_TodaysTasksWithinTarget ==
    [][(/\ limit_by.kind = "Tasks"
        /\ Cardinality(todays_tasks) <= limit_by.n
        /\ Cardinality(documents.todays_tasks) <= limit_by.n)
       => /\ Cardinality(todays_tasks') <= limit_by.n
          /\ Cardinality(documents'.todays_tasks) <= limit_by.n]_vars

\* C37 witness: a refresh of a full todays_tasks drew another task and
\* left todays_tasks full again.
C37_Witness ==
    /\ ret.op = "refresh"
    /\ ret.result = "true"
    /\ ~ret.rollover
    /\ Cardinality(ret.pre_todays) = limit_by.n
    /\ ret.drawn # {}
    /\ ret.drawn \cap ret.pre_todays = {}
    /\ Cardinality(todays_tasks) = limit_by.n
    /\ Cardinality(documents.todays_tasks) = limit_by.n

(* ------------------------ completions and choices ---------------------- *)
\* C38: times_completed never exceeds the number of times the picker has
\* chosen the task: the complete command does not count a task that is
\* already completed, or that is not in today's set, and a task that was
\* never chosen has times_completed = 0.
C38_CompletedAtMostChosen ==
    [][CallOf("complete_tasks")
       => \A s \in DOMAIN state_tasks :
             /\ (state_tasks[s].completed \/ s \notin todays_tasks)
                   => state_tasks'[s].times_completed =
                          state_tasks[s].times_completed
             /\ state_tasks'[s].last_chosen = None
                   => state_tasks'[s].times_completed = 0]_vars

\* The operations that are whole commands ending in a save step, and the
\* results with which such a command returns an error before that step.
CommandOps ==
    {"add", "update", "upsert", "enable_tasks", "disable_tasks", "remove_tasks",
     "complete_tasks", "refresh"}
CommandErrors == {"TaskAlreadyExists", "TaskNotFound", "UninitializedField"}

\* C39: a command that returns an error before its save step writes neither
\* the config document nor the state document: the persisted documents are
\* the same as before the command.
C39_FailedCommandWritesNothing ==
    [][(calls' = calls + 1 /\ ret'.op \in CommandOps
          /\ ret'.result \in CommandErrors)
       => documents' = documents]_vars

\* A command failed as the first call after a batch prefix was applied in
\* memory: the catalog in memory differs from the persisted documents.
C39_Witness ==
    /\ calls = 1
    /\ ret.op \in CommandOps
    /\ ret.result \in CommandErrors
    /\ documents # Document(config_tasks, state_tasks, todays_tasks,
                            last_generated)

====
